---- MODULE Spec2Model ----
(***************************************************************************)
(* Verification model of the quorum-store proof aggregator                 *)
(* (consensus/src/quorum_store/proof_builder.rs) and of the transport      *)
(* types' validation (consensus/src/quorum_store/types.rs).                *)
(*                                                                         *)
(* DigestTimeouts (quorum_store/utils.rs), ProofOfStore and the validator  *)
(* verifier are not part of the excerpt; they are modelled from the        *)
(* written specification (sections 4.1 and 4.3).                           *)
(***************************************************************************)
EXTENDS Integers, Sequences, FiniteSets, TLC

\* ---------------------------------------------------------------- bounds
MaxCmds == 4          \* commands ever sent into the command channel
MaxQueue == 2         \* capacity of the bounded command channel
ProofTimeoutMs == 200 \* the configured proof_timeout_ms

\* ------------------------------------------------------------- constants
TickMs == 100         \* time::interval(Duration::from_millis(100))

Digests == {"d1", "d2"}
Expirations == {1, 2}
Peers == {"p1", "p2", "p3"}

\* BatchId: the registrant's own counter, unique per registration (7, 9, ...).
BatchIdOf(reg) == 5 + 2 * reg
RegIds == 1..MaxCmds

\* SignedDigestInfo: the digest plus the metadata validators sign over.
Infos == [digest : Digests, expiration : Expirations]

\* The info the local node registers for a digest; signatures arriving from
\* the network may carry any info.
InfoOf(d) == [digest |-> d, expiration |-> 1]

\* Infos carried by incoming signatures: the registered ones, and one that
\* names a registered digest under different metadata.
SignedInfos == {InfoOf(d) : d \in Digests} \cup {[digest |-> "d1", expiration |-> 2]}

\* peer_id of the aggregator itself
MyPeerId == "p1"

\* Validator set: voting power per validator.
VotingPower(p) == CASE p = "p1" -> 1 [] p = "p2" -> 1 [] p = "p3" -> 2

RECURSIVE SumPower(_)
SumPower(S) == IF S = {} THEN 0
               ELSE LET p == CHOOSE x \in S : TRUE
                    IN VotingPower(p) + SumPower(S \ {p})

TotalVotingPower == SumPower(Peers)

\* Byzantine quorum: strictly more than two thirds of the total power.
QuorumVotingPower == (TotalVotingPower * 2) \div 3 + 1

check_voting_power(S) == SumPower(S) >= QuorumVotingPower

\* ------------------------------------------------- Proof of Store (4.3)
ProofOfStore_new(info) == [info |-> info, sigs |-> {}]

\* Result of folding (peer, signature) of a digest signed over `info`.
ProofOfStore_add_signature_ret(proof, info, peer) ==
    IF info # proof.info THEN "WrongDigest"
    ELSE IF peer \in proof.sigs THEN "DuplicatedSignature"
    ELSE "Ok"

ProofOfStore_add_signature(proof, info, peer) ==
    IF ProofOfStore_add_signature_ret(proof, info, peer) = "Ok"
    THEN [proof EXCEPT !.sigs = @ \cup {peer}]
    ELSE proof

ProofOfStore_ready(proof, my_id) ==
    my_id \in proof.sigs /\ check_voting_power(proof.sigs)

\* ------------------------------------------- Digest Timeout Tracker (4.1)
\* One bucket per tick: a digest is placed ceil(timeout_ms / tick) ticks ahead.
TimeoutTicks == (ProofTimeoutMs + TickMs - 1) \div TickMs

DigestTimeouts_new == << >>

DigestTimeouts_add_digest(ts, digest, timeout_ms) ==
    Append(ts, [digest |-> digest,
                left |-> (timeout_ms + TickMs - 1) \div TickMs])

\* Records after one more tick has elapsed.
DigestTimeouts_advance(ts) ==
    [i \in 1..Len(ts) |-> [ts[i] EXCEPT !.left = @ - 1]]

IsExpired(rec) == rec.left <= 0
IsLive(rec) == rec.left > 0

\* expire(): the digests whose deadline has elapsed, and what remains.
DigestTimeouts_expired(ts) ==
    LET adv == SelectSeq(DigestTimeouts_advance(ts), IsExpired)
    IN [i \in 1..Len(adv) |-> adv[i].digest]

DigestTimeouts_remaining(ts) == SelectSeq(DigestTimeouts_advance(ts), IsLive)

\* The orders in which expire() may hand back the expired digests.
Orderings(s) ==
    LET n == Len(s)
        perms == {f \in [1..n -> 1..n] : \A i, j \in 1..n : f[i] = f[j] => i = j}
    IN {[i \in 1..n |-> s[f[i]]] : f \in perms}

\* ------------------------------------------------------------------ state
VARIABLES
    digest_to_proof,  \* ProofBuilder.digest_to_proof
    timeouts,         \* ProofBuilder.timeouts
    rx,               \* the inbound command channel (FIFO)
    senders_open,     \* some Sender of the command channel still exists
    loop,             \* "running" | "stopped" (break) | "panicked"
    ack,              \* shutdown acknowledgment: "none" | "delivered" | "failed"
    next_reg,         \* next reply channel to be created by a registrant
    cmds,             \* commands sent so far
    sent,             \* per reply channel: the tx.send calls made on it
    status,           \* per reply channel: life cycle of its registration
    age,              \* per reply channel: ticks since its InitProof
    last,             \* the event handled last and its outcome
    fragment,         \* a Fragment under validation
    verify_args,      \* arguments of Fragment::verify
    verify_result     \* its result

VARIABLES
    regs,             \* per reply channel: its InitProof and the folds since
    batch,            \* a Batch under validation
    batch_args,       \* arguments of Batch::verify
    batch_result      \* its result

VARIABLES
    requested_module_bundle,  \* NativeCodeContext field: None << >>, Some(r) <<r>>
    gas_params,               \* RequestPublishGasParameters of the native
    publish_args,             \* arguments of the last request_publish call
    publish_result,           \* NativeResult of the last request_publish call
    calls                     \* request_publish calls made in this context

aggVars == <<digest_to_proof, timeouts, rx, senders_open, loop, ack, next_reg,
             cmds, sent, status, age, last, regs>>
fragVars == <<fragment, verify_args, verify_result>>
batchVars == <<batch, batch_args, batch_result>>
pubVars == <<requested_module_bundle, gas_params, publish_args, publish_result, calls>>
otherVars == <<fragVars, batchVars, pubVars>>
vars == <<aggVars, otherVars>>

\* ------------------------------------------------------------- commands
InitProofCmd(info, batch_id, tx) ==
    [cmd |-> "InitProof", info |-> info, batch_id |-> batch_id, tx |-> tx]
AppendSignatureCmd(info, peer_id) ==
    [cmd |-> "AppendSignature", info |-> info, peer_id |-> peer_id]
ShutdownCmd(ack_alive) ==
    [cmd |-> "Shutdown", ack_alive |-> ack_alive]

\* Values carried by a reply channel: Result<(ProofOfStore, BatchId), QuorumStoreError>
OkReply(proof, batch_id) == [res |-> "Ok", proof |-> proof, batch_id |-> batch_id]
TimeoutReply(batch_id) == [res |-> "Timeout", batch_id |-> batch_id]

\* What is remembered of a registration: the arguments of its InitProof and
\* the validators whose AppendSignature was folded successfully since.
NoReg == [info |-> InfoOf("d1"), batch_id |-> 0, folded |-> {}]

NoEvent == [ev |-> "none", ret |-> "Ok", found |-> FALSE, ready |-> FALSE,
            fired |-> {}, stale |-> FALSE]

\* ---------------------------------------------------------------- Init
InitAgg ==
    /\ digest_to_proof = << >>
    /\ timeouts = DigestTimeouts_new
    /\ rx = << >>
    /\ senders_open = TRUE
    /\ loop = "running"
    /\ ack = "none"
    /\ next_reg = 1
    /\ cmds = 0
    /\ sent = [r \in RegIds |-> << >>]
    /\ status = [r \in RegIds |-> "unused"]
    /\ age = [r \in RegIds |-> 0]
    /\ last = NoEvent
    /\ regs = [r \in RegIds |-> NoReg]

NoFragment == [source |-> "p1",
               fragment_info |-> [epoch |-> 1, batch_id |-> 7, fragment_id |-> 0,
                                  payload |-> << >>, maybe_expiration |-> << >>]]

InitFrag ==
    /\ fragment = NoFragment
    /\ verify_args = [peer_id |-> "p1", quorum_store_enabled |-> TRUE]
    /\ verify_result = "none"

NoBatch == [source |-> "p1", maybe_payload |-> << >>,
            batch_info |-> [epoch |-> 1, digest |-> "d1"]]

InitBatch ==
    /\ batch = NoBatch
    /\ batch_args = [peer_id |-> "p1", quorum_store_enabled |-> TRUE]
    /\ batch_result = "none"

\* NativeCodeContext::default() with the gas parameters the native was made with.
NoArgs == [destination |-> "0xa", expected_modules |-> << >>, code |-> << >>,
           policy |-> 0]
NoResult == [kind |-> "none", cost |-> 0, abort_code |-> 0]

InitPub ==
    /\ requested_module_bundle = << >>
    /\ gas_params = [base_cost |-> 0, unit_cost |-> 0]
    /\ publish_args = NoArgs
    /\ publish_result = NoResult
    /\ calls = 0

Init == InitAgg /\ InitFrag /\ InitBatch /\ InitPub

\* ------------------------------------------------------- map operations
MapInsert(m, k, v) == [x \in (DOMAIN m) \cup {k} |-> IF x = k THEN v ELSE m[x]]
MapRemove(m, k) == [x \in (DOMAIN m) \ {k} |-> m[x]]

\* The part of the state the handlers below transform.
Cur == [map |-> digest_to_proof, timeouts |-> timeouts, sent |-> sent,
        status |-> status, loop |-> loop, ret |-> "Ok", found |-> FALSE,
        ready |-> FALSE, fired |-> {}, stale |-> FALSE]

\* tx.send(val).expect(..): futures oneshot send fails when the receiving
\* end was dropped, and the expect then panics.  A registrant may drop its
\* receiving end at any moment; the aggregator learns of it only here, so
\* `gone` (the channels whose receiver is dropped by now) is an input of the
\* event that sends.
TxSend(st, tx, val, resolution, gone) ==
    [st EXCEPT !.sent[tx] = Append(@, [val |-> val, ok |-> tx \notin gone]),
               !.status[tx] = resolution,
               !.fired = @ \cup {tx},
               !.loop = IF tx \notin gone THEN @ ELSE "panicked"]

\* The reply channels held by the map.
HeldTx(m) == {m[d].tx : d \in DOMAIN m}

\* When start() returns or unwinds, self and rx are dropped: every reply
\* sender still held by the map or by a queued command is dropped unsent.
DropAll(st) ==
    [st EXCEPT !.status = [r \in RegIds |->
        IF st.status[r] \in {"queued", "pending"} THEN "abandoned" ELSE st.status[r]]]

Finish(st) == IF st.loop = "running" THEN st ELSE DropAll(st)

\* ------------------------------------------------ ProofBuilder handlers
\* Variants of init_proof with one slip each.
\* (a) the timeout registration is forgotten
init_proof_no_timeout(st, info, batch_id, tx) ==
    LET d == info.digest
        st1 == IF d \in DOMAIN st.map
               THEN [st EXCEPT !.status[st.map[d].tx] = "replaced"]
               ELSE st
    IN [st1 EXCEPT
          !.map = MapInsert(@, d, [proof |-> ProofOfStore_new(info),
                                   batch_id |-> batch_id, tx |-> tx]),
          !.status[tx] = "pending",
          !.ret = "Ok"]

\* (b) entry(..).or_insert(..): an existing entry is kept, the new tx dropped
init_proof_keeps_existing(st, info, batch_id, tx) ==
    LET d == info.digest IN
    IF d \in DOMAIN st.map
    THEN [st EXCEPT
            !.timeouts = DigestTimeouts_add_digest(@, d, ProofTimeoutMs),
            !.status[tx] = "replaced",
            !.ret = "Ok"]
    ELSE [st EXCEPT
            !.timeouts = DigestTimeouts_add_digest(@, d, ProofTimeoutMs),
            !.map = MapInsert(@, d, [proof |-> ProofOfStore_new(info),
                                     batch_id |-> batch_id, tx |-> tx]),
            !.status[tx] = "pending",
            !.ret = "Ok"]

init_proof(st, info, batch_id, tx) ==
    LET d == info.digest
        st1 == IF d \in DOMAIN st.map
               THEN [st EXCEPT !.status[st.map[d].tx] = "replaced"]
               ELSE st
    IN [st1 EXCEPT
          !.timeouts = DigestTimeouts_add_digest(@, d, ProofTimeoutMs),
          !.map = MapInsert(@, d, [proof |-> ProofOfStore_new(info),
                                   batch_id |-> batch_id, tx |-> tx]),
          !.status[tx] = "pending",
          !.ret = "Ok"]

\* Variants of add_signature with one slip each.
\* (a) quorum reached, reply sent, but the entry is left in the map
add_signature_keeps_entry(st, signed_digest, gone) ==
    LET d == signed_digest.info.digest IN
    IF d \notin DOMAIN st.map
    THEN [st EXCEPT !.ret = "WrongDigest"]
    ELSE
      LET e == st.map[d]
          ret == ProofOfStore_add_signature_ret(e.proof, signed_digest.info,
                                                signed_digest.peer_id)
          proof == ProofOfStore_add_signature(e.proof, signed_digest.info,
                                              signed_digest.peer_id)
          ready == IF ret = "Ok" THEN ProofOfStore_ready(proof, MyPeerId) ELSE FALSE
          st1 == [st EXCEPT !.map[d].proof = proof, !.ret = ret,
                            !.found = TRUE, !.ready = ready]
      IN IF ready
         THEN TxSend(st1, e.tx, OkReply(proof, e.batch_id), "completed", gone)
         ELSE st1

\* (b) the entry is resolved after any successful fold, ready or not
add_signature_ignores_ready(st, signed_digest, gone) ==
    LET d == signed_digest.info.digest IN
    IF d \notin DOMAIN st.map
    THEN [st EXCEPT !.ret = "WrongDigest"]
    ELSE
      LET e == st.map[d]
          ret == ProofOfStore_add_signature_ret(e.proof, signed_digest.info,
                                                signed_digest.peer_id)
          proof == ProofOfStore_add_signature(e.proof, signed_digest.info,
                                              signed_digest.peer_id)
          ready == IF ret = "Ok" THEN ProofOfStore_ready(proof, MyPeerId) ELSE FALSE
          st1 == [st EXCEPT !.map[d].proof = proof, !.ret = ret,
                            !.found = TRUE, !.ready = ready]
      IN IF ret = "Ok"
         THEN TxSend([st1 EXCEPT !.map = MapRemove(@, d)], e.tx,
                     OkReply(proof, e.batch_id), "completed", gone)
         ELSE st1

\* (c) no contains_key check: and_modify finds nothing and ret stays Ok(())
add_signature_no_lookup(st, signed_digest, gone) ==
    LET d == signed_digest.info.digest IN
    IF d \notin DOMAIN st.map
    THEN [st EXCEPT !.ret = "Ok"]
    ELSE
      LET e == st.map[d]
          ret == ProofOfStore_add_signature_ret(e.proof, signed_digest.info,
                                                signed_digest.peer_id)
          proof == ProofOfStore_add_signature(e.proof, signed_digest.info,
                                              signed_digest.peer_id)
          ready == IF ret = "Ok" THEN ProofOfStore_ready(proof, MyPeerId) ELSE FALSE
          st1 == [st EXCEPT !.map[d].proof = proof, !.ret = ret,
                            !.found = TRUE, !.ready = ready]
      IN IF ready
         THEN TxSend([st1 EXCEPT !.map = MapRemove(@, d)], e.tx,
                     OkReply(proof, e.batch_id), "completed", gone)
         ELSE st1

\* (d) the fold's result is dropped: Ok(()) is returned instead of ret
add_signature_returns_ok(st, signed_digest, gone) ==
    LET d == signed_digest.info.digest IN
    IF d \notin DOMAIN st.map
    THEN [st EXCEPT !.ret = "WrongDigest"]
    ELSE
      LET e == st.map[d]
          ret == ProofOfStore_add_signature_ret(e.proof, signed_digest.info,
                                                signed_digest.peer_id)
          proof == ProofOfStore_add_signature(e.proof, signed_digest.info,
                                              signed_digest.peer_id)
          ready == IF ret = "Ok" THEN ProofOfStore_ready(proof, MyPeerId) ELSE FALSE
          st1 == [st EXCEPT !.map[d].proof = proof, !.ret = "Ok",
                            !.found = TRUE, !.ready = ready]
      IN IF ready
         THEN TxSend([st1 EXCEPT !.map = MapRemove(@, d)], e.tx,
                     OkReply(proof, e.batch_id), "completed", gone)
         ELSE st1

\* (e) the reply carries the certificate as it was before this fold.
add_signature_sends_stale_proof(st, signed_digest, gone) ==
    LET d == signed_digest.info.digest IN
    IF d \notin DOMAIN st.map
    THEN [st EXCEPT !.ret = "WrongDigest"]
    ELSE
      LET e == st.map[d]
          ret == ProofOfStore_add_signature_ret(e.proof, signed_digest.info,
                                                signed_digest.peer_id)
          proof == ProofOfStore_add_signature(e.proof, signed_digest.info,
                                              signed_digest.peer_id)
          ready == IF ret = "Ok" THEN ProofOfStore_ready(proof, MyPeerId) ELSE FALSE
          st1 == [st EXCEPT !.map[d].proof = proof, !.ret = ret,
                            !.found = TRUE, !.ready = ready]
      IN IF ready
         THEN TxSend([st1 EXCEPT !.map = MapRemove(@, d)], e.tx,
                     OkReply(e.proof, e.batch_id), "completed", gone)
         ELSE st1

add_signature(st, signed_digest, gone) ==
    LET d == signed_digest.info.digest IN
    IF d \notin DOMAIN st.map
    THEN [st EXCEPT !.ret = "WrongDigest"]
    ELSE
      LET e == st.map[d]
          ret == ProofOfStore_add_signature_ret(e.proof, signed_digest.info,
                                                signed_digest.peer_id)
          proof == ProofOfStore_add_signature(e.proof, signed_digest.info,
                                              signed_digest.peer_id)
          ready == IF ret = "Ok" THEN ProofOfStore_ready(proof, MyPeerId) ELSE FALSE
          st1 == [st EXCEPT !.map[d].proof = proof, !.ret = ret,
                            !.found = TRUE, !.ready = ready]
      IN IF ready
         THEN TxSend([st1 EXCEPT !.map = MapRemove(@, d)], e.tx,
                     OkReply(proof, e.batch_id), "completed", gone)
         ELSE st1

\* Variant of the loop of expire() that looks the entry up without removing it.
RECURSIVE expire_loop_keeps_entry(_, _, _)
expire_loop_keeps_entry(st, digests, gone) ==
    IF digests = << >> \/ st.loop # "running" THEN st
    ELSE LET d == Head(digests) IN
         IF d \in DOMAIN st.map
         THEN LET e == st.map[d]
              IN expire_loop_keeps_entry(
                     TxSend(st, e.tx, TimeoutReply(e.batch_id), "timedout", gone),
                     Tail(digests), gone)
         ELSE expire_loop_keeps_entry([st EXCEPT !.stale = TRUE], Tail(digests), gone)

RECURSIVE expire_loop(_, _, _)
expire_loop(st, digests, gone) ==
    IF digests = << >> \/ st.loop # "running" THEN st
    ELSE LET d == Head(digests) IN
         IF d \in DOMAIN st.map
         THEN LET e == st.map[d]
              IN expire_loop(TxSend([st EXCEPT !.map = MapRemove(@, d)], e.tx,
                                    TimeoutReply(e.batch_id), "timedout", gone),
                             Tail(digests), gone)
         ELSE expire_loop([st EXCEPT !.stale = TRUE], Tail(digests), gone)

\* Variant of expire() that consumes the expired records and resolves nothing.
expire_forgets_digests(st, digests, gone) ==
    [st EXCEPT !.timeouts = DigestTimeouts_remaining(@)]

\* expire(), for one order in which the tracker hands back the expired digests
expire(st, digests, gone) ==
    expire_loop([st EXCEPT !.timeouts = DigestTimeouts_remaining(@)], digests, gone)

\* Variant of the Shutdown arm without the break.
shutdown_no_break(st, ack_alive) ==
    [st EXCEPT !.loop = IF ack_alive THEN "running" ELSE "panicked"]

\* Shutdown arm of start(): ack_tx.send(()).expect(..); break
shutdown(st, ack_alive) ==
    [st EXCEPT !.loop = IF ack_alive THEN "stopped" ELSE "panicked"]

Min(a, b) == IF a < b THEN a ELSE b

\* Commit the outcome of one handled event.
Commit(st, ev) ==
    LET fin == Finish(st) IN
    /\ digest_to_proof' = fin.map
    /\ timeouts' = fin.timeouts
    /\ sent' = fin.sent
    /\ status' = fin.status
    /\ loop' = fin.loop
    /\ last' = [ev |-> ev, ret |-> fin.ret, found |-> fin.found,
                ready |-> fin.ready, fired |-> fin.fired, stale |-> fin.stale]

\* ------------------------------------------------ start(): the select loop
RecvInitProof ==
    /\ loop = "running" /\ rx # << >> /\ Head(rx).cmd = "InitProof"
    /\ LET c == Head(rx) IN
         /\ Commit(init_proof(Cur, c.info, c.batch_id, c.tx), "InitProof")
         /\ age' = [age EXCEPT ![c.tx] = 0]
         /\ regs' = [regs EXCEPT ![c.tx] = [info |-> c.info, batch_id |-> c.batch_id,
                                            folded |-> {}]]
    /\ rx' = Tail(rx)
    /\ UNCHANGED <<senders_open, ack, next_reg, cmds, otherVars>>

RecvAppendSignature ==
    /\ loop = "running" /\ rx # << >> /\ Head(rx).cmd = "AppendSignature"
    /\ \E gone \in SUBSET HeldTx(digest_to_proof) :
         Commit(add_signature(Cur, Head(rx), gone), "AppendSignature")
    /\ regs' = LET c == Head(rx) IN
                IF last'.found /\ last'.ret = "Ok"
                THEN [regs EXCEPT ![digest_to_proof[c.info.digest].tx].folded =
                                     @ \cup {c.peer_id}]
                ELSE regs
    /\ rx' = Tail(rx)
    /\ UNCHANGED <<senders_open, ack, next_reg, cmds, age, otherVars>>

RecvShutdown ==
    /\ loop = "running" /\ rx # << >> /\ Head(rx).cmd = "Shutdown"
    /\ LET c == Head(rx) IN
         /\ Commit(shutdown(Cur, c.ack_alive), "Shutdown")
         /\ ack' = IF c.ack_alive THEN "delivered" ELSE "failed"
    /\ rx' = Tail(rx)
    /\ UNCHANGED <<senders_open, next_reg, cmds, age, regs, otherVars>>

Tick ==
    /\ loop = "running"
    /\ \E digests \in Orderings(DigestTimeouts_expired(timeouts)),
          gone \in SUBSET HeldTx(digest_to_proof) :
         Commit(expire(Cur, digests, gone), "Tick")
    /\ age' = [r \in RegIds |-> IF status[r] = "pending"
                                THEN Min(age[r] + 1, TimeoutTicks + 1)
                                ELSE age[r]]
    /\ UNCHANGED <<rx, senders_open, ack, next_reg, cmds, regs, otherVars>>

\* ------------------------------------------------------ the environment
CanSend == loop = "running" /\ senders_open /\ Len(rx) < MaxQueue /\ cmds < MaxCmds

SendInitProof ==
    /\ CanSend
    /\ \E d \in Digests :
         rx' = Append(rx, InitProofCmd(InfoOf(d), BatchIdOf(next_reg), next_reg))
    /\ status' = [status EXCEPT ![next_reg] = "queued"]
    /\ next_reg' = next_reg + 1
    /\ cmds' = cmds + 1
    /\ UNCHANGED <<digest_to_proof, timeouts, senders_open, loop, ack,
                   sent, age, last, regs, otherVars>>

SendAppendSignature ==
    /\ CanSend
    /\ \E info \in SignedInfos, p \in Peers :
         rx' = Append(rx, AppendSignatureCmd(info, p))
    /\ cmds' = cmds + 1
    /\ UNCHANGED <<digest_to_proof, timeouts, senders_open, loop, ack, next_reg,
                   sent, status, age, last, regs, otherVars>>

SendShutdown ==
    /\ CanSend
    /\ \E a \in BOOLEAN : rx' = Append(rx, ShutdownCmd(a))
    /\ cmds' = cmds + 1
    /\ UNCHANGED <<digest_to_proof, timeouts, senders_open, loop, ack, next_reg,
                   sent, status, age, last, regs, otherVars>>

\* Every Sender of the command channel is dropped: rx.recv() yields None.
CloseSenders ==
    /\ senders_open /\ loop = "running"
    /\ senders_open' = FALSE
    /\ UNCHANGED <<digest_to_proof, timeouts, rx, loop, ack, next_reg, cmds,
                   sent, status, age, last, regs, otherVars>>

Next ==
    \/ RecvInitProof
    \/ RecvAppendSignature
    \/ RecvShutdown
    \/ Tick
    \/ SendInitProof
    \/ SendAppendSignature
    \/ SendShutdown
    \/ CloseSenders

Spec == Init /\ [][Next]_vars

\* ------------------------------------------------ Fragment (types.rs)
Epochs == {1, 2}
Rounds == {0, 1}
FragmentIds == {0, 1}
FragmentBatchIds == {7, 9}
Payloads == {<< >>, <<"txn">>}

\* Option<LogicalTime>: None is << >>, Some(t) is <<t>>.
LogicalTimes == [epoch : Epochs, round : Rounds]
MaybeExpirations == {<< >>} \cup {<<t>> : t \in LogicalTimes}

FragmentInfo_new(epoch, batch_id, fragment_id, fragment_payload, maybe_expiration) ==
    [epoch |-> epoch, batch_id |-> batch_id, fragment_id |-> fragment_id,
     payload |-> fragment_payload, maybe_expiration |-> maybe_expiration]

Fragment_new(epoch, batch_id, fragment_id, fragment_payload, maybe_expiration, peer_id) ==
    [source |-> peer_id,
     fragment_info |-> FragmentInfo_new(epoch, batch_id, fragment_id,
                                        fragment_payload, maybe_expiration)]

Fragments == {Fragment_new(e, b, i, pl, x, p) :
                e \in Epochs, b \in FragmentBatchIds, i \in FragmentIds,
                pl \in Payloads, x \in MaybeExpirations, p \in Peers}

VerifyArgs == [peer_id : Peers, quorum_store_enabled : BOOLEAN]

\* Variant of Fragment::verify without the expiration epoch check.
Fragment_verify_no_epoch(f, peer_id, quorum_store_enabled) ==
    IF ~quorum_store_enabled THEN "ErrNotEnabled"
    ELSE IF f.source = peer_id THEN "Ok"
    ELSE "ErrSenderMismatch"

Fragment_verify(f, peer_id, quorum_store_enabled) ==
    IF ~quorum_store_enabled THEN "ErrNotEnabled"
    ELSE IF /\ f.fragment_info.maybe_expiration # << >>
            /\ f.fragment_info.maybe_expiration[1].epoch # f.fragment_info.epoch
         THEN "ErrEpochMismatch"
    ELSE IF f.source = peer_id THEN "Ok"
    ELSE "ErrSenderMismatch"

\* A fragment arrives from the network together with its attested sender.
ReceiveFragment ==
    /\ \E f \in Fragments, a \in VerifyArgs :
         /\ fragment' = f
         /\ verify_args' = a
    /\ verify_result' = "none"
    /\ UNCHANGED <<aggVars, batchVars, pubVars>>

VerifyFragment ==
    /\ verify_result = "none"
    /\ verify_result' = Fragment_verify(fragment, verify_args.peer_id,
                                        verify_args.quorum_store_enabled)
    /\ UNCHANGED <<aggVars, fragment, verify_args, batchVars, pubVars>>

InitVerify ==
    /\ InitAgg /\ InitBatch /\ InitPub
    /\ fragment \in Fragments
    /\ verify_args \in VerifyArgs
    /\ verify_result = "none"

NextVerify == ReceiveFragment \/ VerifyFragment

VerifySpec == InitVerify /\ [][NextVerify]_vars

\* --------------------------------------------------- Batch (types.rs)
\* maybe_payload: None (a request) is << >>, Some(txns) (a response) is <<txns>>.
MaybePayloads == {<< >>, << << >> >>, << <<"txn">> >>}

Batch_new(epoch, source, digest_hash, maybe_payload) ==
    [source |-> source, maybe_payload |-> maybe_payload,
     batch_info |-> [epoch |-> epoch, digest |-> digest_hash]]

Batches == {Batch_new(e, p, d, pl) :
              e \in Epochs, p \in Peers, d \in Digests, pl \in MaybePayloads}

\* Variant of Batch::verify that accepts responses only.
Batch_verify_needs_payload(b, peer_id, quorum_store_enabled) ==
    IF ~quorum_store_enabled THEN "ErrNotEnabled"
    ELSE IF b.maybe_payload = << >> THEN "ErrNoPayload"
    ELSE IF b.source = peer_id THEN "Ok"
    ELSE "ErrSenderMismatch"

Batch_verify(b, peer_id, quorum_store_enabled) ==
    IF ~quorum_store_enabled THEN "ErrNotEnabled"
    ELSE IF b.source = peer_id THEN "Ok"
    ELSE "ErrSenderMismatch"

\* A batch request or response arrives together with its attested sender.
ReceiveBatch ==
    /\ \E b \in Batches, a \in VerifyArgs :
         /\ batch' = b
         /\ batch_args' = a
    /\ batch_result' = "none"
    /\ UNCHANGED <<aggVars, fragVars, pubVars>>

VerifyBatch ==
    /\ batch_result = "none"
    /\ batch_result' = Batch_verify(batch, batch_args.peer_id,
                                    batch_args.quorum_store_enabled)
    /\ UNCHANGED <<aggVars, fragVars, batch, batch_args, pubVars>>

InitBatchAny ==
    /\ InitAgg /\ InitFrag /\ InitPub
    /\ batch \in Batches
    /\ batch_args \in VerifyArgs
    /\ batch_result = "none"

NextBatch == ReceiveBatch \/ VerifyBatch

BatchSpec == InitBatchAny /\ [][NextBatch]_vars

\* ------------------------------------- request_publish (natives/code.rs)
MaxCalls == 2

EALREADY_REQUESTED == 196608
CHECK_COMPAT_POLICY == 1

Addresses == {"0xa", "0xb"}
Policies == 0..2
\* A module is its bytes; a Move string::String is a struct around its
\* UTF-8 bytes ("a" and the two-byte "e acute").
MoveString(bytes) == [bytes |-> bytes]
Codes == {<< >>, <<<<7>>>>, <<<<7>>, <<7, 8>>>>}
ExpectedModules == {<< >>,
                    <<MoveString(<<97>>)>>,
                    <<MoveString(<<97>>), MoveString(<<97>>)>>,
                    <<MoveString(<<97>>), MoveString(<<195, 169>>)>>}
GasParams == [base_cost : {0, 5}, unit_cost : {1, 3}]
PublishArgs == [destination : Addresses,
                expected_modules : ExpectedModules,
                code : Codes,
                policy : Policies]

\* get_move_string: the first field of the struct, as a String of the same bytes.
get_move_string(v) == v.bytes

\* BTreeSet built by inserting every name of the vector.
NameSet(names) == {get_move_string(names[i]) : i \in 1..Len(names)}

\* code.iter().fold(0, |acc, module_code| acc + module_code.len())
RECURSIVE CodeLen(_)
CodeLen(code) == IF code = << >> THEN 0 ELSE Len(Head(code)) + CodeLen(Tail(code))

\* expected_modules.iter().fold(0, |acc, name| acc + name.len())
RECURSIVE NamesLen(_)
NamesLen(set) ==
    IF set = {} THEN 0
    ELSE LET n == CHOOSE x \in set : TRUE IN Len(n) + NamesLen(set \ {n})

\* Variant of the gas formula that charges for the module code alone.
request_publish_cost_code_only(params, code, expected_modules) ==
    params.base_cost + params.unit_cost * CodeLen(code)

request_publish_cost(params, code, expected_modules) ==
    params.base_cost + params.unit_cost * CodeLen(code)
                     + params.unit_cost * NamesLen(expected_modules)

NativeResult_ok(cost) == [kind |-> "ok", cost |-> cost, abort_code |-> 0]
NativeResult_err(cost, abort_code) ==
    [kind |-> "err", cost |-> cost, abort_code |-> abort_code]

PublishRequest(args, expected_modules) ==
    [destination |-> args.destination,
     bundle |-> args.code,
     expected_modules |-> expected_modules,
     check_compat |-> (args.policy = CHECK_COMPAT_POLICY)]

\* Variant of the native that stores the request whether or not one is recorded.
native_request_publish_overwrites(params, ctx, args) ==
    LET expected_modules == NameSet(args.expected_modules)
        cost == request_publish_cost(params, args.code, expected_modules)
    IN [ctx |-> <<PublishRequest(args, expected_modules)>>,
        result |-> NativeResult_ok(cost)]

native_request_publish(params, ctx, args) ==
    LET expected_modules == NameSet(args.expected_modules)
        cost == request_publish_cost(params, args.code, expected_modules)
    IN IF ctx # << >>
       THEN [ctx |-> ctx, result |-> NativeResult_err(cost, EALREADY_REQUESTED)]
       ELSE [ctx |-> <<PublishRequest(args, expected_modules)>>,
             result |-> NativeResult_ok(cost)]

RequestPublish ==
    /\ calls < MaxCalls
    /\ \E args \in PublishArgs :
         LET out == native_request_publish(gas_params, requested_module_bundle, args)
         IN /\ requested_module_bundle' = out.ctx
            /\ publish_result' = out.result
            /\ publish_args' = args
    /\ calls' = calls + 1
    /\ UNCHANGED <<aggVars, fragVars, batchVars, gas_params>>

InitPublish ==
    /\ InitAgg /\ InitFrag /\ InitBatch
    /\ requested_module_bundle = << >>
    /\ gas_params \in GasParams
    /\ publish_args = NoArgs
    /\ publish_result = NoResult
    /\ calls = 0

NextPublish == RequestPublish

PublishSpec == InitPublish /\ [][NextPublish]_vars

\* Fairness of the select loop: a ready command and a due tick are each
\* taken eventually (tokio::select! polls its branches in random order).
Recv == RecvInitProof \/ RecvAppendSignature \/ RecvShutdown
FairSpec == Spec /\ WF_vars(Tick) /\ WF_vars(Recv)

\* ======================================================== properties
\* The step in which start() takes a command of the given kind off rx.
RecvStep(kind) ==
    /\ loop = "running" /\ rx # << >> /\ Head(rx).cmd = kind
    /\ rx' = Tail(rx)

\* The step in which the interval fires and expire() runs on a non-empty tracker.
TickStep ==
    /\ loop = "running" /\ timeouts # << >>
    /\ rx' = rx
    /\ timeouts' = DigestTimeouts_remaining(timeouts)

Replies(r) == Len(sent[r])

\* C1: a reply channel receives at most one value, ever: no registration is
\* resolved both by quorum and by timeout, or twice by either.
C1_AtMostOneReply == \A r \in RegIds : Replies(r) <= 1

\* A registration completed by quorum whose timeout record later expired and
\* was discarded.
C1_Witness ==
    /\ last.ev = "Tick" /\ last.stale
    /\ \E r \in RegIds : Replies(r) = 1 /\ sent[r][1].val.res = "Ok"

\* C2: every registration made under InitProof's precondition eventually has
\* its reply sent, unless the aggregator is shut down.
C2_EventuallyReplied ==
    \A r \in RegIds :
        (status[r] = "pending") ~>
            (Replies(r) = 1 \/ ack # "none" \/ status[r] = "replaced")

\* C3: a registration is timed out exactly when quorum was not reached within
\* proof_timeout_ms (TimeoutTicks ticks) of its own InitProof; stated for
\* registrations made while no entry existed for their digest.
C3_TimeoutIffDeadline ==
    (\A q \in RegIds : status[q] # "replaced") =>
        \A r \in RegIds :
            /\ status[r] = "timedout" => age[r] >= TimeoutTicks
            /\ status[r] = "completed" => age[r] < TimeoutTicks
            /\ (status[r] = "pending" /\ loop = "running") => age[r] < TimeoutTicks

\* C4: a successful fold resolves the digest as Completed in that same step
\* (entry removed, Ok with the certificate and batch id sent on the stored
\* channel) iff the certificate is now ready; below the quorum threshold the
\* entry stays, with the signature folded in, and nothing is sent.
C4_Step ==
    (/\ RecvStep("AppendSignature")
     /\ Head(rx).info.digest \in DOMAIN digest_to_proof
     /\ last'.ret = "Ok")
    => LET c == Head(rx)
           d == c.info.digest
           e == digest_to_proof[d]
           signers == e.proof.sigs \cup {c.peer_id}
           cert == [info |-> e.proof.info, sigs |-> signers]
           isReady == MyPeerId \in signers /\ SumPower(signers) >= QuorumVotingPower
       IN /\ isReady <=> d \notin DOMAIN digest_to_proof'
          /\ isReady <=> sent' # sent
          /\ isReady =>
               \E ok \in BOOLEAN :
                 sent' = [sent EXCEPT ![e.tx] =
                            Append(@, [val |-> OkReply(cert, e.batch_id), ok |-> ok])]
          /\ ~isReady =>
               digest_to_proof' = [digest_to_proof EXCEPT ![d].proof = cert]
          /\ SumPower(signers) < QuorumVotingPower =>
               d \in DOMAIN digest_to_proof' /\ sent' = sent

C4_QuorumResolvesInSameStep == [][C4_Step]_vars

\* A fold that reached quorum after an earlier fold that did not.
C4_Witness ==
    /\ last.ev = "AppendSignature" /\ last.ret = "Ok" /\ last.ready
    /\ \E r \in last.fired :
         /\ Replies(r) = 1 /\ sent[r][1].val.res = "Ok"
         /\ Cardinality(sent[r][1].val.proof.sigs) >= 2

\* C5: AppendSignature for a digest without a map entry returns WrongDigest,
\* leaves map and tracker unchanged, sends nothing, and the loop keeps running.
C5_Step ==
    (/\ RecvStep("AppendSignature")
     /\ Head(rx).info.digest \notin DOMAIN digest_to_proof)
    => /\ last'.ret = "WrongDigest"
       /\ UNCHANGED <<digest_to_proof, timeouts, sent, status>>
       /\ loop' = "running"

C5_UnknownDigestIsNoOp == [][C5_Step]_vars

\* A signature arriving for a digest that was already resolved.
C5_Witness ==
    /\ last.ev = "AppendSignature" /\ ~last.found /\ last.ret = "WrongDigest"
    /\ loop = "running"
    /\ \E r \in RegIds : status[r] \in {"completed", "timedout"}

\* C6: a failed fold (in particular a second signature of a validator that
\* already contributed) returns the error, leaves the entry unchanged, does
\* not resolve the digest and sends nothing.
C6_Step ==
    (/\ RecvStep("AppendSignature")
     /\ Head(rx).info.digest \in DOMAIN digest_to_proof)
    => LET c == Head(rx)
           e == digest_to_proof[c.info.digest]
       IN /\ c.peer_id \in e.proof.sigs => last'.ret # "Ok"
          /\ last'.ret # "Ok" =>
               /\ UNCHANGED <<digest_to_proof, timeouts, sent, status>>
               /\ ~last'.ready
               /\ loop' = "running"

C6_FailedFoldLeavesEntry == [][C6_Step]_vars

\* A duplicate signature was rejected and the entry is still pending.
C6_Witness ==
    /\ last.ev = "AppendSignature" /\ last.found
    /\ last.ret = "DuplicatedSignature"
    /\ \E d \in DOMAIN digest_to_proof : digest_to_proof[d].proof.sigs # {}

\* C7: on a tick every expired digest that still has an entry is removed and
\* Err(Timeout(batch_id)) is sent on its channel; every other entry, and
\* every other channel, is left alone.
C7_Step ==
    TickStep =>
      LET ds == DigestTimeouts_expired(timeouts)
          expired == {ds[i] : i \in 1..Len(ds)}
      IN \A d \in DOMAIN digest_to_proof :
           LET e == digest_to_proof[d] IN
           IF d \in expired
           THEN /\ d \notin DOMAIN digest_to_proof'
                /\ \E ok \in BOOLEAN :
                     sent'[e.tx] = Append(sent[e.tx],
                                          [val |-> TimeoutReply(e.batch_id), ok |-> ok])
           ELSE /\ d \in DOMAIN digest_to_proof'
                /\ digest_to_proof'[d] = e
                /\ sent'[e.tx] = sent[e.tx]

C7_ExpiredEntriesTimedOut == [][C7_Step]_vars

\* C8: processing Shutdown acknowledges and ends the loop; afterwards no
\* queued command and no tick is processed, and the pending proof contexts
\* are dropped without a value ever being sent on their channels.
C8_Step ==
    /\ RecvStep("Shutdown") =>
         /\ loop' # "running"
         /\ Head(rx).ack_alive => (ack' = "delivered" /\ loop' = "stopped")
         /\ sent' = sent
         /\ \A r \in RegIds :
              status[r] \in {"queued", "pending"} => status'[r] = "abandoned"
    /\ loop # "running" =>
         UNCHANGED <<digest_to_proof, timeouts, rx, loop, ack, sent, status, age, last>>

C8_ShutdownEndsLoop == [][C8_Step]_vars

\* Shutdown was acknowledged with a command still queued behind it and a
\* proof context pending, which got no reply.
C8_Witness ==
    /\ loop = "stopped" /\ ack = "delivered" /\ last.ev = "Shutdown"
    /\ rx # << >>
    /\ \E d \in DOMAIN digest_to_proof :
         /\ status[digest_to_proof[d].tx] = "abandoned"
         /\ sent[digest_to_proof[d].tx] = << >>

\* C9: a reply that cannot be delivered (receiver dropped) is non-fatal: the
\* loop keeps running.
C9_Step ==
    (\E r \in RegIds : /\ Replies(r)' > Replies(r)
                       /\ ~sent'[r][Len(sent'[r])].ok)
    => loop' = "running"

C9_UndeliverableReplyNonFatal == [][C9_Step]_vars

\* C10: Fragment::verify returns Ok iff quorum store is enabled, the
\* expiration (if any) is of the fragment's epoch, and the source is the
\* expected sender; batch id, fragment id and payload do not matter.
SameAuthFields(f, g) ==
    /\ f.source = g.source
    /\ f.fragment_info.epoch = g.fragment_info.epoch
    /\ f.fragment_info.maybe_expiration = g.fragment_info.maybe_expiration

C10_FragmentVerify ==
    verify_result # "none" =>
      LET x == fragment.fragment_info.maybe_expiration IN
      /\ verify_result = "Ok" <=>
           /\ verify_args.quorum_store_enabled
           /\ (x = << >> \/ x[1].epoch = fragment.fragment_info.epoch)
           /\ fragment.source = verify_args.peer_id
      /\ \A g \in Fragments :
           SameAuthFields(fragment, g) =>
             Fragment_verify(g, verify_args.peer_id,
                             verify_args.quorum_store_enabled) = verify_result

\* A fragment with payload and an expiration of its own epoch was accepted.
C10_Witness ==
    /\ verify_result = "Ok"
    /\ fragment.fragment_info.payload # << >>
    /\ fragment.fragment_info.maybe_expiration # << >>

\* C11: Batch::verify returns Ok iff quorum store is enabled and the source
\* is the expected sender; a request (no payload) and a response, and batches
\* of different digests, get the same verdict.
SameSource(b, g) == b.source = g.source /\ b.batch_info.epoch = g.batch_info.epoch

C11_BatchVerify ==
    batch_result # "none" =>
      /\ batch_result = "Ok" <=>
           /\ batch_args.quorum_store_enabled
           /\ batch.source = batch_args.peer_id
      /\ \A g \in Batches :
           SameSource(batch, g) =>
             Batch_verify(g, batch_args.peer_id,
                          batch_args.quorum_store_enabled) = batch_result

\* A request, without payload, was accepted.
C11_Witness ==
    /\ batch_result = "Ok"
    /\ batch.maybe_payload = << >>

\* C12: InitProof for a digest without an entry inserts exactly one entry
\* (empty certificate over info, batch id, tx) and registers exactly one
\* timeout of proof_timeout_ms; it sends nothing and leaves every other
\* entry unchanged.
C12_Step ==
    (/\ RecvStep("InitProof")
     /\ Head(rx).info.digest \notin DOMAIN digest_to_proof)
    => LET c == Head(rx)
           d == c.info.digest
       IN /\ DOMAIN digest_to_proof' = DOMAIN digest_to_proof \cup {d}
          /\ digest_to_proof'[d] = [proof |-> [info |-> c.info, sigs |-> {}],
                                    batch_id |-> c.batch_id, tx |-> c.tx]
          /\ \A x \in DOMAIN digest_to_proof : digest_to_proof'[x] = digest_to_proof[x]
          /\ timeouts' = Append(timeouts, [digest |-> d, left |-> TimeoutTicks])
          /\ sent' = sent
          /\ loop' = "running"

C12_InitProofInsertsOnce == [][C12_Step]_vars

\* A second digest was registered next to one that already holds a signature.
C12_Witness ==
    /\ last.ev = "InitProof"
    /\ \A r \in RegIds : status[r] # "replaced"
    /\ Cardinality(DOMAIN digest_to_proof) = 2 /\ Len(timeouts) = 2
    /\ \E d \in DOMAIN digest_to_proof : digest_to_proof[d].proof.sigs # {}

RecordsOf(d) == {i \in 1..Len(timeouts) : timeouts[i].digest = d}

\* C13: every digest with a map entry has exactly one timeout record; stated
\* for registrations made while no entry existed for their digest.
C13_OneRecordPerEntry ==
    (loop = "running" /\ \A q \in RegIds : status[q] # "replaced") =>
        \A d \in DOMAIN digest_to_proof : Cardinality(RecordsOf(d)) = 1

\* C20: InitProof for a digest that has a pending entry is accepted and
\* replaces it: empty certificate, new batch id, new reply channel; the
\* earlier registration's channel is dropped and never sent on.
C20_Step ==
    /\ (/\ RecvStep("InitProof")
        /\ Head(rx).info.digest \in DOMAIN digest_to_proof)
       => LET c == Head(rx)
              d == c.info.digest
              old == digest_to_proof[d]
          IN /\ last'.ret = "Ok"
             /\ DOMAIN digest_to_proof' = DOMAIN digest_to_proof
             /\ digest_to_proof'[d] = [proof |-> [info |-> c.info, sigs |-> {}],
                                       batch_id |-> c.batch_id, tx |-> c.tx]
             /\ sent' = sent
             /\ status'[old.tx] = "replaced"
             /\ loop' = "running"
    /\ \A r \in RegIds : status'[r] = "replaced" => sent'[r] = << >>

C20_InitProofReplaces == [][C20_Step]_vars

\* A registration that had folded a signature was replaced by a fresh one.
C20_Witness ==
    /\ last.ev = "InitProof"
    /\ \E r \in RegIds, d \in DOMAIN digest_to_proof :
         /\ status[r] = "replaced" /\ regs[r].folded # {} /\ sent[r] = << >>
         /\ regs[r].info.digest = d
         /\ digest_to_proof[d].tx # r
         /\ digest_to_proof[d].proof.sigs = {}

\* C14: commands are applied in the order they were sent, one at a time, and
\* a tick runs only between two of them: every step that changes rx either
\* appends at its tail without touching the aggregator or applies its head,
\* and in no state is a resolved entry still in the map or a pending one
\* already answered.
AppliesHead ==
    LET c == Head(rx)
        d == c.info.digest
    IN /\ last'.ev = c.cmd
       /\ c.cmd = "InitProof" =>
            /\ d \in DOMAIN digest_to_proof' /\ digest_to_proof'[d].tx = c.tx
            /\ \A q \in RegIds : q < c.tx => status[q] # "queued"
       /\ c.cmd = "AppendSignature" =>
            /\ last'.found <=> d \in DOMAIN digest_to_proof
            /\ (last'.ret = "Ok" /\ d \in DOMAIN digest_to_proof') =>
                 c.peer_id \in digest_to_proof'[d].proof.sigs
       /\ c.cmd = "Shutdown" => loop' # "running"

C14_Step ==
    /\ rx' # rx =>
         \/ /\ Len(rx') = Len(rx) + 1 /\ SubSeq(rx', 1, Len(rx)) = rx
            /\ UNCHANGED <<digest_to_proof, timeouts, sent, loop, last>>
         \/ /\ rx # << >> /\ rx' = Tail(rx) /\ loop = "running"
            /\ AppliesHead
    /\ \A r \in RegIds :
         /\ Replies(r)' >= 1 => r \notin HeldTx(digest_to_proof')
         /\ (status'[r] = "pending" /\ loop' = "running") =>
              (r \in HeldTx(digest_to_proof') /\ Replies(r)' = 0)
         /\ status'[r] \in {"completed", "timedout"} => Replies(r)' = 1

C14_OrderedAndAtomic == [][C14_Step]_vars

\* A tick that timed an entry out ran after two commands had been applied
\* and while another command was waiting in the channel.
C14_Witness ==
    /\ last.ev = "Tick" /\ last.fired # {}
    /\ rx # << >>
    /\ cmds - Len(rx) >= 2

\* C15: a Completed reply carries the batch id of its registration's
\* InitProof and a certificate over that InitProof's info whose signers are
\* exactly the validators folded since that InitProof; a Timeout reply
\* carries the batch id of its registration's InitProof.
C15_ReplyCarriesRegistration ==
    \A r \in RegIds : \A i \in 1..Len(sent[r]) :
        LET v == sent[r][i].val IN
        /\ v.batch_id = regs[r].batch_id
        /\ v.res = "Ok" =>
             /\ v.proof.info = regs[r].info
             /\ v.proof.sigs = regs[r].folded
        /\ v.res \in {"Ok", "Timeout"}

\* Batch id 7 completed with three signatures, the third crossing the quorum.
C15_Witness ==
    \E r \in RegIds :
        /\ Replies(r) = 1
        /\ sent[r][1].val.res = "Ok"
        /\ sent[r][1].val.batch_id = 7
        /\ Cardinality(sent[r][1].val.proof.sigs) = 3

\* C16: the loop leaves "running" only in the step that processes a Shutdown.
C16_Step == (loop = "running" /\ loop' # "running") => RecvStep("Shutdown")

C16_ExitsOnlyOnShutdown == [][C16_Step]_vars

\* C17: an AppendSignature for digest d leaves every other digest's map
\* entry, reply channel and the timeout records as they were, and one that
\* returns an error leaves the whole aggregator state as it was.
C17_Step ==
    RecvStep("AppendSignature") =>
      LET d == Head(rx).info.digest IN
      /\ \A e \in Digests \ {d} :
           /\ e \in DOMAIN digest_to_proof <=> e \in DOMAIN digest_to_proof'
           /\ e \in DOMAIN digest_to_proof =>
                /\ digest_to_proof'[e] = digest_to_proof[e]
                /\ sent'[digest_to_proof[e].tx] = sent[digest_to_proof[e].tx]
                /\ status'[digest_to_proof[e].tx] = status[digest_to_proof[e].tx]
      /\ timeouts' = timeouts
      /\ last'.ret # "Ok" =>
           UNCHANGED <<digest_to_proof, timeouts, sent, status, loop>>

C17_AppendSignatureFrame == [][C17_Step]_vars

\* C18: in one context the first request_publish call stores its request
\* (check_compat exactly when policy is 1) and returns ok; every later call
\* returns abort code 0x03_0000 and leaves the stored request as it was.
C18_Step ==
    calls' = calls + 1 =>
      IF calls = 0
      THEN /\ publish_result'.kind = "ok"
           /\ requested_module_bundle' =
                <<[destination |-> publish_args'.destination,
                   bundle |-> publish_args'.code,
                   expected_modules |->
                       {publish_args'.expected_modules[i].bytes :
                            i \in 1..Len(publish_args'.expected_modules)},
                   check_compat |-> (publish_args'.policy = 1)]>>
      ELSE /\ publish_result'.kind = "err"
           /\ publish_result'.abort_code = 3 * 65536
           /\ requested_module_bundle' = requested_module_bundle
           /\ Len(requested_module_bundle) = 1

C18_AtMostOneRequest == [][C18_Step]_vars

\* A second call with other arguments was refused and the first request kept.
C18_Witness ==
    /\ calls = 2
    /\ publish_result.kind = "err"
    /\ requested_module_bundle # << >>
    /\ requested_module_bundle[1].destination # publish_args.destination
    /\ requested_module_bundle[1].bundle # publish_args.code
    /\ requested_module_bundle[1].check_compat
    /\ publish_args.policy # 1

DistinctNames(names) == {names[i].bytes : i \in 1..Len(names)}

LiveRecordsOf(d) ==
    {i \in 1..Len(timeouts) : timeouts[i].digest = d /\ IsLive(timeouts[i])}

C21_EntryHasLiveRecord ==
    loop = "running" =>
        \A d \in DOMAIN digest_to_proof :
            /\ LiveRecordsOf(d) # {}
            /\ \E i \in LiveRecordsOf(d) :
                 timeouts[i].left + age[digest_to_proof[d].tx] <= TimeoutTicks

\* A digest registered twice, a tick apart, whose second entry is pending
\* with both records still in the tracker.
C21_Witness ==
    /\ loop = "running"
    /\ \E d \in DOMAIN digest_to_proof :
         /\ status[digest_to_proof[d].tx] = "pending"
         /\ \E i, j \in LiveRecordsOf(d) : timeouts[i].left < timeouts[j].left
         /\ \E q \in RegIds : status[q] = "replaced"
====
